---- MODULE Spec2Model ----
(***************************************************************************)
(* State-machine model of the Whisper key directory and message relay      *)
(* (contract/src/lib.rs, struct WhisperContract).  Every public method of  *)
(* the contract is one action; a call that panics leaves the contract      *)
(* state as it was and records the panic message in `last`.                *)
(***************************************************************************)
EXTENDS Integers, Sequences, FiniteSets, TLC

\* ------------------------------------------------------------------------
\* Bounds of the model
\* ------------------------------------------------------------------------
\* Largest number of notifications (successful mutating calls) explored by
\* each specification.
MaxLog == 5
MaxRegistryLog == 3
MaxRelayLog == 3
MaxGroupsLog == 3

\* ------------------------------------------------------------------------
\* Option<T>: None is the empty sequence, Some(x) the one-element sequence.
\* ------------------------------------------------------------------------
None == << >>
Some(x) == << x >>
is_some(o) == o # None
is_none(o) == o = None
unwrap(o) == o[1]

\* ------------------------------------------------------------------------
\* NearToken.  A NearToken is a u128 number of yoctoNEAR; 1 milliNEAR is
\* 10^21 yoctoNEAR.  The amount milli * 10^21 + yocto is kept as the pair
\* [milli, yocto] with yocto < 10^21, which orders and adds like the u128
\* as long as the yocto part stays below 10^21 (it is 0 or 1 here).
\* ------------------------------------------------------------------------
YoctoDigits == 21
from_yoctonear(y) == [milli |-> 0, yocto |-> y]
from_millinear(m) == [milli |-> m, yocto |-> 0]
token_ge(a, b) == a.milli > b.milli \/ (a.milli = b.milli /\ a.yocto >= b.yocto)
token_gt(a, b) == a.milli > b.milli \/ (a.milli = b.milli /\ a.yocto > b.yocto)

\* u128::to_string: the decimal digits, most significant first, no leading
\* zeros ("0" for zero).
Digit(d) == <<"0", "1", "2", "3", "4", "5", "6", "7", "8", "9">>[d + 1]
RECURSIVE to_string(_)
to_string(n) == IF n < 10 THEN << Digit(n) >>
                ELSE Append(to_string(n \div 10), Digit(n % 10))
RECURSIVE Zeros(_)
Zeros(k) == IF k <= 0 THEN << >> ELSE << "0" >> \o Zeros(k - 1)
\* amount.as_yoctonear().to_string()
yocto_string(a) ==
    IF a.milli = 0 THEN to_string(a.yocto)
    ELSE to_string(a.milli)
         \o Zeros(YoctoDigits - Len(to_string(a.yocto))) \o to_string(a.yocto)


\* ------------------------------------------------------------------------
\* base64::engine::general_purpose::STANDARD.decode, as far as register_key
\* uses it: whether the text decodes, and to how many bytes.  A text is a
\* sequence of one-character strings.  STANDARD uses the alphabet A-Z a-z
\* 0-9 + /, requires canonical '=' padding (so the length is a multiple of
\* 4) and rejects non-zero trailing bits in the last symbol.
\* ------------------------------------------------------------------------
Alphabet ==
    << "A","B","C","D","E","F","G","H","I","J","K","L","M","N","O","P",
       "Q","R","S","T","U","V","W","X","Y","Z","a","b","c","d","e","f",
       "g","h","i","j","k","l","m","n","o","p","q","r","s","t","u","v",
       "w","x","y","z","0","1","2","3","4","5","6","7","8","9","+","/" >>
AlphabetSet == { Alphabet[i] : i \in DOMAIN Alphabet }
SymbolValue(c) == (CHOOSE i \in DOMAIN Alphabet : Alphabet[i] = c) - 1
Padding(s) ==
    IF Len(s) >= 1 /\ s[Len(s)] = "="
    THEN (IF Len(s) >= 2 /\ s[Len(s) - 1] = "=" THEN 2 ELSE 1)
    ELSE 0
\* Faulty variant: the trailing bits of the last symbol are not checked.
base64_decode_len_lenient(s) ==
    LET n    == Len(s)
        pad  == Padding(s)
        data == n - pad
    IN  IF /\ n % 4 = 0
           /\ \A i \in 1..data : s[i] \in AlphabetSet
        THEN Some(3 * (n \div 4) - pad)
        ELSE None

\* Ok(bytes) is Some(number of decoded bytes), Err(_) is None.
base64_decode_len(s) ==
    LET n    == Len(s)
        pad  == Padding(s)
        data == n - pad
    IN  IF /\ n % 4 = 0
           /\ \A i \in 1..data : s[i] \in AlphabetSet
           /\ (pad = 1 => SymbolValue(s[data]) % 4 = 0)
           /\ (pad = 2 => SymbolValue(s[data]) % 16 = 0)
        THEN Some(3 * (n \div 4) - pad)
        ELSE None

RECURSIVE Repeat(_, _)
Repeat(q, k) == IF k <= 0 THEN << >> ELSE q \o Repeat(q, k - 1)

\* ------------------------------------------------------------------------
\* Inputs of the calls
\* ------------------------------------------------------------------------
Accounts == { "alice.near", "bob.near" }
GroupIds == { "test-group-1", "test-group-2" }
\* BASE64.encode([1u8; 32]) and BASE64.encode([2u8; 32]) of the tests
PubKey1 == Repeat(<<"A","Q","E","B">>, 10) \o <<"A","Q","E","=">>
PubKey2 == Repeat(<<"A","g","I","C">>, 10) \o <<"A","g","I","=">>
\* three bytes only
ShortKey == <<"A","Q","E","B">>
\* not base64 at all
NotBase64 == <<"!","!","!","!">>
\* 44 symbols whose last one carries non-zero trailing bits
TrailingBitsKey == Repeat(<<"A","Q","E","B">>, 10) \o <<"A","Q","F","=">>
GoodKeys == { PubKey1, PubKey2 }
PubKeys == GoodKeys \cup { ShortKey, NotBase64, TrailingBitsKey }
DisplayNames == { None, Some("Alice") }
GroupNames == { None, Some("Test Group") }
\* attached values: nothing, one yoctoNEAR, just below and exactly 0.01 NEAR
NoDeposit == from_yoctonear(0)
OneYocto == from_yoctonear(1)
StorageDeposits == { NoDeposit, from_millinear(9), from_millinear(10) }
Payments == { NoDeposit, OneYocto, from_millinear(10) }
KeyVersions == { 1, 2 }
\* BASE64.decode of every key text the calls use, computed once
Decoded == [k \in PubKeys |-> base64_decode_len(k)]
\* BASE64.decode(&x25519_pubkey)
BASE64_decode(x25519_pubkey) == Decoded[x25519_pubkey]
\* block timestamps the host may show
Timestamps == { 0, 1 }
Body == "encrypted_data_base64"
Nonce == "nonce_base64"
MemberKeys == "{\"alice.near\":\"key1\",\"bob.near\":\"key2\"}"

\* ------------------------------------------------------------------------
\* Panic messages (the spec's error names in comments)
\* ------------------------------------------------------------------------
\* MalformedKey
InvalidBase64Msg == "Invalid base64 pubkey"
BadKeyLengthMsg == "X25519 pubkey must be 32 bytes"
\* InsufficientDeposit
ProfileDepositMsg == "Attach at least 0.01 NEAR for storage deposit"
GroupDepositMsg == "Attach at least 0.01 NEAR for storage"
\* UnknownRecipient
UnknownRecipientMsg == "Recipient has no registered messaging key"
\* NoPayment
NoPaymentMsg == "Must attach NEAR tokens for payment message"
\* DuplicateGroup
DuplicateGroupMsg == "Group ID already exists"
\* UnknownGroup
UnknownGroupMsg == "Group does not exist"
Ok == "ok"

\* ------------------------------------------------------------------------
\* State
\* ------------------------------------------------------------------------
VARIABLES
    profiles,       \* LookupMap<AccountId, MessagingProfile>: account -> Option
    groups,         \* LookupMap<String, GroupChat>: group id -> Option
    profile_count,  \* u64
    message_count,  \* u64
    owner,          \* AccountId
    log,            \* the EVENT_JSON lines logged so far, oldest first
    receipts,       \* the transfer promises the calls have returned, oldest first
    balance,        \* value received by each account; no method writes it
    now,            \* env::block_timestamp()
    last            \* the most recent call: method, attached value, result

contract == << profiles, groups, profile_count, message_count, owner >>
vars == << profiles, groups, profile_count, message_count, owner,
           log, receipts, balance, now, last >>

\* The account that deploys the contract and calls new() (the tests' context)
Deployer == "alice.near"

\* WhisperContract::new, called once by the deploying account.
Init ==
    /\ profiles = [a \in Accounts |-> None]
    /\ groups = [g \in GroupIds |-> None]
    /\ profile_count = 0
    /\ message_count = 0
    /\ owner = Deployer
    /\ log = << >>
    /\ receipts = << >>
    /\ balance = [a \in Accounts |-> from_yoctonear(0)]
    /\ now = 0
    /\ last = [method |-> "new", attached_deposit |-> NoDeposit, result |-> Ok]

\* Faulty variant: the value is stored under every key.
insert_everywhere(map, key, value) == [k \in DOMAIN map |-> Some(value)]

\* Faulty variant: inserting over an entry removes it.
insert_toggles(map, key, value) ==
    [map EXCEPT ![key] = IF is_some(@) THEN None ELSE Some(value)]

\* LookupMap::insert(key, value): the entry under key is now value.
insert(map, key, value) == [map EXCEPT ![key] = Some(value)]

\* LookupMap::get(&key).is_some() of the view has_profile
has_profile(account_id) == is_some(profiles[account_id])

\* The view get_profile: self.profiles.get(&account_id).cloned()
get_profile(account_id) == profiles[account_id]

\* Faulty variant: the line is logged twice.
emit_event_twice(event, data) ==
    LET line == [standard |-> "whisper", version |-> "1.0.0",
                 event |-> event, data |-> data]
    IN  log' = Append(Append(log, line), line)

\* emit_event: one EVENT_JSON line in the NEP-297 envelope.
emit_event(event, data) ==
    log' = Append(log, [standard |-> "whisper", version |-> "1.0.0",
                        event |-> event, data |-> data])

\* Faulty variant: the message counter was advanced before the failing check.
Panic_after_count(call, msg) ==
    /\ last' = [call EXCEPT !.result = msg]
    /\ message_count' = message_count + 1
    /\ UNCHANGED << profiles, groups, profile_count, owner, log, receipts,
                    balance, now >>

\* A failed assert!/panic_str: the call ends there with the given message.
\* Every one of them stands before the first assignment of its method, so
\* nothing has been written when it fires.
Panic(call, msg) ==
    /\ last' = [call EXCEPT !.result = msg]
    /\ UNCHANGED << contract, log, receipts, balance, now >>

\* What `last` keeps of a call: the method, the attached value, the outcome.
Call(method, deposit) ==
    [method |-> method, attached_deposit |-> deposit, result |-> Ok]


\* ------------------------------------------------------------------------
\* new
\* ------------------------------------------------------------------------
\* pub fn new() -> Self: builds and returns a value with empty maps, both
\* counters 0 and owner = env::predecessor_account_id().  It has no
\* &mut self: a call made after construction returns another value, leaves
\* the constructed contract as it is and does not panic.  new() is not
\* #[payable]: it runs with no attached value.
New(predecessor) ==
    LET call == Call("new", NoDeposit)
    IN  /\ last' = call
        /\ UNCHANGED << contract, log, receipts, balance, now >>

\* ------------------------------------------------------------------------
\* register_key
\* ------------------------------------------------------------------------
\* assert_eq!(decoded.len(), 32, ...)
KeyBytes == 32
\* NearToken::from_millinear(10) of register_key
ProfileDepositMilliNear == 10

\* Faulty variant: a rotation keeps the old version number.
next_key_version_kept(existing) ==
    IF is_none(existing) THEN 1 ELSE unwrap(existing).key_version

\* existing.map_or(1, |p| p.key_version + 1)
next_key_version(existing) ==
    IF is_none(existing) THEN 1 ELSE unwrap(existing).key_version + 1

\* Faulty variant: the minimum itself is refused (> for >=).
profile_deposit_strict(deposit) ==
    token_gt(deposit, from_millinear(10))

\* deposit >= NearToken::from_millinear(10)
profile_deposit_ok(deposit) ==
    token_ge(deposit, from_millinear(ProfileDepositMilliNear))

\* Faulty variant: rotations are counted as new profiles.
counted_profiles_always(existing) == profile_count + 1

\* if existing.is_none() { ...; self.profile_count += 1; }
counted_profiles(existing) ==
    IF is_none(existing) THEN profile_count + 1 ELSE profile_count

\* Faulty variant: an absent display_name keeps the one already stored.
new_profile_merged(existing, x25519_pubkey, key_version, display_name) ==
    [x25519_pubkey |-> x25519_pubkey, key_version |-> key_version,
     registered_at |-> now,
     display_name |-> IF is_none(display_name) /\ is_some(existing)
                      THEN unwrap(existing).display_name
                      ELSE display_name]

\* MessagingProfile { x25519_pubkey, key_version, registered_at, display_name }
\* `existing` is the profile being replaced; no field of it is read here.
new_profile(existing, x25519_pubkey, key_version, display_name) ==
    [x25519_pubkey |-> x25519_pubkey, key_version |-> key_version,
     registered_at |-> now, display_name |-> display_name]

RegisterKey(predecessor, deposit, x25519_pubkey, display_name) ==
    LET call == Call("register_key", deposit)
        account_id == predecessor
        decoded == BASE64_decode(x25519_pubkey)
        existing == profiles[account_id]
        key_version == next_key_version(existing)
    IN  IF is_none(decoded) THEN Panic(call, InvalidBase64Msg)
        ELSE IF unwrap(decoded) # KeyBytes THEN Panic(call, BadKeyLengthMsg)
        ELSE IF is_none(existing) /\ ~profile_deposit_ok(deposit)
             THEN Panic(call, ProfileDepositMsg)
        ELSE /\ profile_count' = counted_profiles(existing)
             /\ profiles' = insert(profiles, account_id,
                    new_profile(existing, x25519_pubkey, key_version,
                                display_name))
             /\ emit_event("key_registered",
                    [account_id |-> account_id,
                     x25519_pubkey |-> x25519_pubkey,
                     key_version |-> key_version,
                     display_name |-> display_name])
             /\ last' = call
             /\ UNCHANGED << groups, message_count, owner, receipts,
                             balance, now >>

\* ------------------------------------------------------------------------
\* send_message, send_message_with_payment
\* ------------------------------------------------------------------------
\* Faulty variant: the recipient is not looked up.
recipient_unchecked(to) == TRUE

\* self.profiles.get(&to).is_some()
recipient_registered(to) == is_some(profiles[to])

\* Faulty variant: the id is read before the counter is advanced.
stale_message_id == message_count

\* self.message_count += 1; let message_id = self.message_count;
next_message_id == message_count + 1

\* Faulty variant: the given version must be the recipient's current one.
SendMessage_current_version(predecessor, to, recipient_key_version, reply_to) ==
    LET call == Call("send_message", NoDeposit)
        from == predecessor
        message_id == next_message_id
    IN  IF ~recipient_registered(to) THEN Panic(call, UnknownRecipientMsg)
        ELSE IF unwrap(profiles[to]).key_version # recipient_key_version
             THEN Panic(call, UnknownRecipientMsg)
        ELSE /\ message_count' = message_id
             /\ emit_event("message",
                    [id |-> message_id, from |-> from, to |-> to,
                     encrypted_body |-> Body, nonce |-> Nonce,
                     recipient_key_version |-> recipient_key_version,
                     reply_to |-> reply_to, timestamp |-> now])
             /\ last' = call
             /\ UNCHANGED << profiles, groups, profile_count, owner,
                             receipts, balance, now >>

\* send_message is not #[payable]: its body runs with no attached value.
SendMessage(predecessor, to, recipient_key_version, reply_to) ==
    LET call == Call("send_message", NoDeposit)
        from == predecessor
        message_id == next_message_id
    IN  IF ~recipient_registered(to) THEN Panic(call, UnknownRecipientMsg)
        ELSE /\ message_count' = message_id
             /\ emit_event("message",
                    [id |-> message_id, from |-> from, to |-> to,
                     encrypted_body |-> Body, nonce |-> Nonce,
                     recipient_key_version |-> recipient_key_version,
                     reply_to |-> reply_to, timestamp |-> now])
             /\ last' = call
             /\ UNCHANGED << profiles, groups, profile_count, owner,
                             receipts, balance, now >>

\* Faulty variant: the attached value is not looked at.
payment_unchecked(amount) == TRUE

\* amount > NearToken::from_yoctonear(0)
payment_attached(amount) == token_gt(amount, from_yoctonear(0))

\* Promise::new(to).transfer(amount): the promise the call returns.  The
\* call only creates it; the transfer itself is made by the host after the
\* call has ended.
payment_transfer(to, amount) == [receiver_id |-> to, amount |-> amount]

\* "payment": { "token": "NEAR", "amount": amount.as_yoctonear().to_string() }
payment_field(amount) == [token |-> "NEAR", amount |-> yocto_string(amount)]

SendMessageWithPayment(predecessor, deposit, to, recipient_key_version, reply_to) ==
    LET call == Call("send_message_with_payment", deposit)
        from == predecessor
        amount == deposit
        message_id == next_message_id
    IN  IF ~payment_attached(amount) THEN Panic(call, NoPaymentMsg)
        ELSE IF ~recipient_registered(to) THEN Panic(call, UnknownRecipientMsg)
        ELSE /\ message_count' = message_id
             /\ emit_event("message",
                    [id |-> message_id, from |-> from, to |-> to,
                     encrypted_body |-> Body, nonce |-> Nonce,
                     recipient_key_version |-> recipient_key_version,
                     reply_to |-> reply_to, timestamp |-> now,
                     payment |-> payment_field(amount)])
             /\ receipts' = Append(receipts, payment_transfer(to, amount))
             /\ last' = call
             /\ UNCHANGED << profiles, groups, profile_count, owner,
                             balance, now >>

\* ------------------------------------------------------------------------
\* create_group, send_group_message
\* ------------------------------------------------------------------------
\* NearToken::from_millinear(10) of create_group
GroupDepositMilliNear == 10

\* Faulty variant: the minimum itself is refused (> for >=).
group_deposit_strict(deposit) ==
    token_gt(deposit, from_millinear(GroupDepositMilliNear))

\* deposit >= NearToken::from_millinear(10)
group_deposit_ok(deposit) ==
    token_ge(deposit, from_millinear(GroupDepositMilliNear))

\* Faulty variant: an existing group is overwritten.
group_absent_unchecked(group_id) == TRUE

\* self.groups.get(&group_id).is_none()
group_absent(group_id) == is_none(groups[group_id])

\* Faulty variant: the group is not looked up.
group_exists_unchecked(group_id) == TRUE

\* self.groups.get(&group_id).is_some()
group_exists(group_id) == is_some(groups[group_id])

CreateGroup(predecessor, deposit, group_id, name) ==
    LET call == Call("create_group", deposit)
        creator == predecessor
    IN  IF ~group_deposit_ok(deposit) THEN Panic(call, GroupDepositMsg)
        ELSE IF ~group_absent(group_id) THEN Panic(call, DuplicateGroupMsg)
        ELSE /\ groups' = insert(groups, group_id,
                    [group_id |-> group_id, creator |-> creator,
                     created_at |-> now, name |-> name])
             /\ emit_event("group_created",
                    [group_id |-> group_id, creator |-> creator,
                     name |-> name, member_keys |-> MemberKeys,
                     timestamp |-> now])
             /\ last' = call
             /\ UNCHANGED << profiles, profile_count, message_count, owner,
                             receipts, balance, now >>

\* send_group_message is not #[payable]: its body runs with no attached value.
SendGroupMessage(predecessor, group_id, group_key_version) ==
    LET call == Call("send_group_message", NoDeposit)
        from == predecessor
        message_id == next_message_id
    IN  IF ~group_exists(group_id) THEN Panic(call, UnknownGroupMsg)
        ELSE /\ message_count' = message_id
             /\ emit_event("group_message",
                    [id |-> message_id, group_id |-> group_id, from |-> from,
                     encrypted_body |-> Body, nonce |-> Nonce,
                     group_key_version |-> group_key_version,
                     timestamp |-> now])
             /\ last' = call
             /\ UNCHANGED << profiles, groups, profile_count, owner,
                             receipts, balance, now >>

\* ------------------------------------------------------------------------
\* The host: block time moves on between calls
\* ------------------------------------------------------------------------
Tick ==
    /\ \E t \in Timestamps : t > now /\ now' = t
    /\ UNCHANGED << contract, log, receipts, balance, last >>

\* ------------------------------------------------------------------------
\* Specifications.  The host runs one call at a time, to completion.  Each
\* specification has every method and the host step; they differ in the
\* arguments they explore.  Spec reaches every outcome of every method on a
\* few arguments; the other three explore one component's calls in full and
\* the other components' calls on a few arguments.
\* ------------------------------------------------------------------------
Alice == "alice.near"
Bob == "bob.near"
Group1 == "test-group-1"
MinDeposit == from_millinear(10)

\* Calls are explored while the log has room for their notification.
Room(bound) == Len(log) < bound

Next ==
    \/ /\ Room(MaxLog)
       /\ \E predecessor \in Accounts, deposit \in { NoDeposit, MinDeposit },
             x25519_pubkey \in { PubKey1, ShortKey, NotBase64 } :
              RegisterKey(predecessor, deposit, x25519_pubkey, None)
    \/ /\ Room(MaxLog)
       /\ \E to \in Accounts : SendMessage(Alice, to, 1, None)
    \/ /\ Room(MaxLog)
       /\ \E deposit \in { NoDeposit, OneYocto }, to \in Accounts :
              SendMessageWithPayment(Bob, deposit, to, 1, None)
    \/ /\ Room(MaxLog)
       /\ \E deposit \in { NoDeposit, MinDeposit } :
              CreateGroup(Alice, deposit, Group1, None)
    \/ /\ Room(MaxLog)
       /\ SendGroupMessage(Bob, Group1, 1)
    \/ \E predecessor \in Accounts : New(predecessor)
    \/ Tick

Spec == Init /\ [][Next]_vars

\* Profile Registry: register_key in full.
NextRegistry ==
    \/ /\ Room(MaxRegistryLog)
       /\ \E predecessor \in Accounts, deposit \in StorageDeposits,
             x25519_pubkey \in PubKeys, display_name \in DisplayNames :
              RegisterKey(predecessor, deposit, x25519_pubkey, display_name)
    \/ /\ Room(MaxRegistryLog)
       /\ \E predecessor \in Accounts :
              \E to \in Accounts \ { predecessor } :
                  SendMessage(predecessor, to, 1, None)
    \/ /\ Room(MaxRegistryLog)
       /\ SendMessageWithPayment(Alice, OneYocto, Bob, 1, None)
    \/ /\ Room(MaxRegistryLog)
       /\ CreateGroup(Bob, MinDeposit, Group1, None)
    \/ /\ Room(MaxRegistryLog)
       /\ SendGroupMessage(Alice, Group1, 1)
    \/ \E predecessor \in Accounts : New(predecessor)
    \/ Tick

SpecRegistry == Init /\ [][NextRegistry]_vars

\* Relay Dispatcher: the two direct sends in full.
NextRelay ==
    \/ /\ Room(MaxRelayLog)
       /\ \E predecessor \in Accounts :
              RegisterKey(predecessor, MinDeposit, PubKey1, None)
    \/ /\ Room(MaxRelayLog)
       /\ \E predecessor \in Accounts, to \in Accounts,
             recipient_key_version \in KeyVersions :
              SendMessage(predecessor, to, recipient_key_version, None)
    \/ /\ Room(MaxRelayLog)
       /\ \E predecessor \in Accounts, deposit \in Payments, to \in Accounts :
              SendMessageWithPayment(predecessor, deposit, to, 1, None)
    \/ /\ Room(MaxRelayLog)
       /\ CreateGroup(Alice, MinDeposit, Group1, None)
    \/ /\ Room(MaxRelayLog)
       /\ SendGroupMessage(Bob, Group1, 1)
    \/ \E predecessor \in Accounts : New(predecessor)
    \/ Tick

SpecRelay == Init /\ [][NextRelay]_vars

\* Group Directory: create_group and send_group_message in full.
NextGroups ==
    \/ /\ Room(MaxGroupsLog)
       /\ RegisterKey(Alice, MinDeposit, PubKey1, None)
    \/ /\ Room(MaxGroupsLog)
       /\ SendMessage(Bob, Alice, 1, None)
    \/ /\ Room(MaxGroupsLog)
       /\ SendMessageWithPayment(Bob, OneYocto, Alice, 1, None)
    \/ /\ Room(MaxGroupsLog)
       /\ \E predecessor \in Accounts, deposit \in StorageDeposits,
             group_id \in GroupIds, name \in GroupNames :
              CreateGroup(predecessor, deposit, group_id, name)
    \/ /\ Room(MaxGroupsLog)
       /\ \E predecessor \in Accounts, group_id \in GroupIds,
             group_key_version \in KeyVersions :
              SendGroupMessage(predecessor, group_id, group_key_version)
    \/ \E predecessor \in Accounts : New(predecessor)
    \/ Tick

SpecGroups == Init /\ [][NextGroups]_vars

\* ------------------------------------------------------------------------
\* Properties
\* ------------------------------------------------------------------------
ReplyTos == { None }
key_version_of(a) == unwrap(profiles[a]).key_version
Registered == { a \in Accounts : is_some(profiles[a]) }
IsMessage(e) == e.event \in { "message", "group_message" }
IsPaid(e) == e.event = "message" /\ "payment" \in DOMAIN e.data
MessageEvents == SelectSeq(log, IsMessage)
Failed(method, msg) == last.method = method /\ last.result = msg
Succeeded(method) == last.method = method /\ last.result = Ok
\* The value attached to the call a step makes
Attached == { last'.attached_deposit }

\* C1: a successful register_key by an account without a Profile gives it
\* key_version 1 and adds exactly 1 to profile_count; a successful
\* register_key by an account with a Profile adds exactly 1 to its
\* key_version and leaves profile_count as it was.
C1_RegisterVersioning ==
    [][ (last'.method = "register_key" /\ last'.result = Ok) =>
          \A a \in Accounts, d \in Attached, k \in PubKeys,
             n \in DisplayNames :
              RegisterKey(a, d, k, n) =>
                /\ is_some(profiles'[a])
                /\ IF is_none(profiles[a])
                   THEN /\ unwrap(profiles'[a]).key_version = 1
                        /\ profile_count' = profile_count + 1
                   ELSE /\ unwrap(profiles'[a]).key_version
                              = unwrap(profiles[a]).key_version + 1
                        /\ profile_count' = profile_count ]_vars

\* A rotation has happened: one profile, at version 2.
C1_Witness ==
    /\ Succeeded("register_key")
    /\ profile_count = 1
    /\ \E a \in Registered : key_version_of(a) = 2

\* C2: the ids of the message and group_message notifications, in emission
\* order, are 1, 2, 3, ... whatever the kinds of the sends and whatever
\* failed calls come between them.
C2_MessageIdsSequential ==
    \A i \in DOMAIN MessageEvents : MessageEvents[i].data.id = i

\* A direct, a paid and a group message have all been emitted.
C2_Witness ==
    /\ \E i \in DOMAIN log : log[i].event = "message" /\ ~IsPaid(log[i])
    /\ \E i \in DOMAIN log : IsPaid(log[i])
    /\ \E i \in DOMAIN log : log[i].event = "group_message"

\* C3: send_message to an account with no Profile fails with
\* UnknownRecipient, whoever calls, and leaves message_count and the log as
\* they were.
C3_UnknownRecipient ==
    [][ last'.method = "send_message" =>
          \A p \in Accounts, to \in Accounts, v \in KeyVersions,
             r \in ReplyTos :
              (is_none(profiles[to]) /\ SendMessage(p, to, v, r)) =>
                /\ last'.result = UnknownRecipientMsg
                /\ message_count' = message_count
                /\ log' = log ]_vars

\* send_message has failed for want of a recipient after another message
\* went through.
C3_Witness ==
    /\ Failed("send_message", UnknownRecipientMsg)
    /\ message_count >= 1
    /\ Registered # Accounts

\* C4 as stated: create_group with a group_id already in the directory fails
\* with DuplicateGroup for every caller and every attached value, and leaves
\* the stored GroupChat as it was.
C4_AlwaysDuplicateGroup ==
    [][ last'.method = "create_group" =>
          \A p \in Accounts, d \in Attached, g \in GroupIds,
             n \in GroupNames :
              (is_some(groups[g]) /\ CreateGroup(p, d, g, n)) =>
                /\ last'.result = DuplicateGroupMsg
                /\ groups' = groups ]_vars

\* C4 amended: create_group with a group_id already in the directory fails
\* for every caller and every attached value and leaves the stored GroupChat
\* as it was; the failure is DuplicateGroup when at least 0.01 NEAR is
\* attached and InsufficientDeposit when less is.
C4_ExistingGroupRefused ==
    [][ last'.method = "create_group" =>
          \A p \in Accounts, d \in Attached, g \in GroupIds,
             n \in GroupNames :
              (is_some(groups[g]) /\ CreateGroup(p, d, g, n)) =>
                /\ last'.result = IF token_ge(d, MinDeposit)
                                  THEN DuplicateGroupMsg
                                  ELSE GroupDepositMsg
                /\ groups' = groups ]_vars

\* Every group id is taken and create_group has just been refused for its
\* deposit.
C4_Witness ==
    /\ Failed("create_group", GroupDepositMsg)
    /\ \A g \in GroupIds : is_some(groups[g])

\* The decimal text of the amounts that are attached in the model.
AmountText(d) ==
    CASE d = OneYocto -> << "1" >>
      [] d = from_millinear(9) -> << "9" >> \o Zeros(21)
      [] d = from_millinear(10) -> << "1", "0" >> \o Zeros(21)

\* The sum of two amounts.
token_add(a, b) == [milli |-> a.milli + b.milli, yocto |-> a.yocto + b.yocto]

\* C5 as stated: send_message_with_payment with nothing attached fails with
\* NoPayment; with a positive value attached (to a registered recipient) it
\* increases the recipient's balance by exactly the attached amount and
\* emits exactly one message notification, which has a payment field.
C5_PaymentAmount ==
    [][ last'.method = "send_message_with_payment" =>
          \A p \in Accounts, d \in Attached, to \in Accounts,
             v \in KeyVersions, r \in ReplyTos :
              SendMessageWithPayment(p, d, to, v, r) =>
                /\ d = NoDeposit => last'.result = NoPaymentMsg
                /\ (d # NoDeposit /\ is_some(profiles[to])) =>
                     /\ last'.result = Ok
                     /\ Len(log') = Len(log) + 1
                     /\ SubSeq(log', 1, Len(log)) = log
                     /\ log'[Len(log')].event = "message"
                     /\ log'[Len(log')].data.to = to
                     /\ log'[Len(log')].data.payment
                          = [token |-> "NEAR", amount |-> AmountText(d)]
                     /\ balance'[to] = token_add(balance[to], d) ]_vars

\* C6 as stated: the notification and the transfer of
\* send_message_with_payment are atomic; in no reachable state has a paid
\* message been emitted while its transfer has not taken place.
C6_PaymentAtomic ==
    \A i \in DOMAIN log :
        IsPaid(log[i]) =>
            ~ \E j \in DOMAIN receipts :
                  receipts[j].receiver_id = log[i].data.to

\* C7 as stated: send_message_with_payment to an account with no Profile
\* fails with UnknownRecipient, advances no counter, emits nothing and
\* transfers nothing.
C7_PaidUnknownRecipient ==
    [][ last'.method = "send_message_with_payment" =>
          \A p \in Accounts, d \in Attached, to \in Accounts,
             v \in KeyVersions, r \in ReplyTos :
              (is_none(profiles[to]) /\ SendMessageWithPayment(p, d, to, v, r)) =>
                /\ last'.result = UnknownRecipientMsg
                /\ UNCHANGED << contract, log, receipts, balance >> ]_vars

\* C7 amended: send_message_with_payment to an account with no Profile
\* fails, advances no counter, emits nothing and transfers nothing; the
\* failure is UnknownRecipient when a positive value is attached and
\* NoPayment when nothing is.
C7_PaidToUnregisteredFails ==
    [][ last'.method = "send_message_with_payment" =>
          \A p \in Accounts, d \in Attached, to \in Accounts,
             v \in KeyVersions, r \in ReplyTos :
              (is_none(profiles[to]) /\ SendMessageWithPayment(p, d, to, v, r)) =>
                /\ last'.result = IF d = NoDeposit THEN NoPaymentMsg
                                  ELSE UnknownRecipientMsg
                /\ UNCHANGED << contract, log, receipts, balance >> ]_vars

\* A paid send has failed for want of a recipient while another account is
\* registered.
C7_Witness ==
    /\ Failed("send_message_with_payment", UnknownRecipientMsg)
    /\ last.attached_deposit # NoDeposit
    /\ Registered # { }
    /\ Registered # Accounts

\* A step that is one call of a mutating method.
CallStep ==
    \/ /\ last'.method = "register_key"
       /\ \E p \in Accounts, d \in Attached, k \in PubKeys,
             n \in DisplayNames : RegisterKey(p, d, k, n)
    \/ /\ last'.method = "send_message"
       /\ \E p \in Accounts, to \in Accounts, v \in KeyVersions,
             r \in ReplyTos : SendMessage(p, to, v, r)
    \/ /\ last'.method = "send_message_with_payment"
       /\ \E p \in Accounts, d \in Attached, to \in Accounts,
             v \in KeyVersions, r \in ReplyTos :
              SendMessageWithPayment(p, d, to, v, r)
    \/ /\ last'.method = "create_group"
       /\ \E p \in Accounts, d \in Attached, g \in GroupIds,
             n \in GroupNames : CreateGroup(p, d, g, n)
    \/ /\ last'.method = "send_group_message"
       /\ \E p \in Accounts, g \in GroupIds, v \in KeyVersions :
              SendGroupMessage(p, g, v)

\* C8: a call of register_key, send_message, send_message_with_payment,
\* create_group or send_group_message that fails leaves the profiles, the
\* groups, both counters and the log as they were and transfers nothing.
C8_FailureChangesNothing ==
    [][ (last'.result # Ok /\ CallStep) =>
          /\ profiles' = profiles
          /\ groups' = groups
          /\ profile_count' = profile_count
          /\ message_count' = message_count
          /\ owner' = owner
          /\ log' = log
          /\ receipts' = receipts
          /\ balance' = balance ]_vars

\* A call has failed in a state with a profile, a message and a transfer
\* under way.
C8_Witness ==
    /\ last.result # Ok
    /\ profile_count >= 1
    /\ message_count >= 1
    /\ receipts # << >>

\* C9: profile_count is the number of accounts that have a Profile.
C9_ProfileCountMatches ==
    profile_count = Cardinality(Registered)

\* Both accounts are registered and one of them has rotated its key.
C9_Witness ==
    /\ profile_count = 2
    /\ \E a \in Registered : key_version_of(a) = 2

\* C10: register_key with a well-formed key by an account without a Profile
\* succeeds exactly when at least 0.01 NEAR is attached and otherwise fails
\* with InsufficientDeposit and changes nothing; by an account with a Profile
\* it succeeds with any attached value, zero included.
C10_DepositGating ==
    [][ last'.method = "register_key" =>
          \A a \in Accounts, d \in Attached, k \in GoodKeys,
             n \in DisplayNames :
              RegisterKey(a, d, k, n) =>
                IF is_none(profiles[a])
                THEN /\ (last'.result = Ok) <=> token_ge(d, MinDeposit)
                     /\ ~token_ge(d, MinDeposit) =>
                          /\ last'.result = ProfileDepositMsg
                          /\ UNCHANGED << contract, log, receipts, balance >>
                ELSE last'.result = Ok ]_vars

\* A rotation has gone through with nothing attached.
C10_Witness ==
    /\ Succeeded("register_key")
    /\ last.attached_deposit = NoDeposit
    /\ \E a \in Registered : key_version_of(a) >= 2

\* The MalformedKey panic each ill-formed key text of the model must get.
MalformedKeyMsg(k) ==
    CASE k = NotBase64 -> InvalidBase64Msg
      [] k = TrailingBitsKey -> InvalidBase64Msg
      [] k = ShortKey -> BadKeyLengthMsg

\* C11: register_key with a key text that does not decode to exactly 32
\* bytes fails with MalformedKey and changes nothing (no Profile created or
\* replaced, profile_count and key_version as before, no notification),
\* whether or not the caller has a Profile and whatever value is attached.
C11_MalformedKey ==
    [][ last'.method = "register_key" =>
          \A a \in Accounts, d \in Attached, k \in PubKeys \ GoodKeys,
             n \in DisplayNames :
              RegisterKey(a, d, k, n) =>
                /\ last'.result = MalformedKeyMsg(k)
                /\ UNCHANGED << contract, log, receipts, balance >> ]_vars

\* A registered account that has rotated once was refused an ill-formed key
\* with the full deposit attached.
C11_Witness ==
    /\ Failed("register_key", InvalidBase64Msg)
    /\ last.attached_deposit = MinDeposit
    /\ \E a \in Registered : key_version_of(a) = 2

\* The successful mutating calls so far, read off the contract state: every
\* successful register_key raised its caller's key_version by one (from
\* nothing to 1 the first time), every successful send raised message_count
\* by one, every successful create_group stored one group.
RECURSIVE SumVersions(_)
SumVersions(as) ==
    IF as = { } THEN 0
    ELSE LET a == CHOOSE x \in as : TRUE
         IN  key_version_of(a) + SumVersions(as \ { a })
SuccessfulCalls ==
    SumVersions(Registered) + message_count
        + Cardinality({ g \in GroupIds : is_some(groups[g]) })

\* C13: a successful call of register_key, send_message,
\* send_message_with_payment, create_group or send_group_message appends
\* exactly one notification to the log and a failed one appends none; no
\* other step touches the log, which is only ever appended to; so the
\* number of notifications is the number of successful mutating calls.
C13_OneNotificationPerSuccess ==
    /\ [](Len(log) = SuccessfulCalls)
    /\ [][ IF CallStep
           THEN IF last'.result = Ok
                THEN /\ Len(log') = Len(log) + 1
                     /\ SubSeq(log', 1, Len(log)) = log
                ELSE log' = log
           ELSE log' = log ]_vars

\* Notifications of all four kinds are in the log and the last call failed.
C13_Witness ==
    /\ Len(log) = 4
    /\ Cardinality({ log[i].event : i \in DOMAIN log }) = 4
    /\ last.result # Ok

\* C14: once a group_id has been created its GroupChat is never removed and
\* its creator, created_at and name never change, whatever is called later
\* and by whom, create_group with the same group_id included.
C14_GroupsImmutable ==
    [][ \A g \in GroupIds :
          is_some(groups[g]) =>
            /\ is_some(groups'[g])
            /\ unwrap(groups'[g]).group_id = unwrap(groups[g]).group_id
            /\ unwrap(groups'[g]).creator = unwrap(groups[g]).creator
            /\ unwrap(groups'[g]).created_at = unwrap(groups[g]).created_at
            /\ unwrap(groups'[g]).name = unwrap(groups[g]).name ]_vars

\* Both ids were created in an earlier block by different accounts, and a
\* later create_group with a taken id and the full deposit was refused.
C14_Witness ==
    /\ Failed("create_group", DuplicateGroupMsg)
    /\ now = 1
    /\ \A g \in GroupIds : is_some(groups[g]) /\ unwrap(groups[g]).created_at = 0
    /\ { unwrap(groups[g]).creator : g \in GroupIds } = Accounts

\* C15: once an account has a Profile it has one in every later state: no
\* step removes a Profile, so has_profile(A) never goes from true to false,
\* and send_message to an account that has a Profile succeeds.
C15_ProfilesKept ==
    [][ /\ \A a \in Accounts : has_profile(a) => has_profile(a)'
        /\ last'.method = "send_message" =>
              \A p \in Accounts, to \in Accounts, v \in KeyVersions,
                 r \in ReplyTos :
                  (has_profile(to) /\ SendMessage(p, to, v, r)) =>
                      last'.result = Ok ]_vars

\* One account alone is registered, has rotated its key once, and its last
\* register_key was refused for the length of the key.
C15_Witness ==
    /\ Failed("register_key", BadKeyLengthMsg)
    /\ Registered = { Bob }
    /\ key_version_of(Bob) = 2

\* C16: send_group_message to a group_id that is not in the directory fails
\* with UnknownGroup, leaves message_count as it was and emits nothing; to
\* a group_id that is in the directory it succeeds for any caller, adds
\* exactly 1 to message_count, the counter of the direct messages too, and
\* emits one group_message notification that carries the new count as id.
C16_GroupMessage ==
    [][ last'.method = "send_group_message" =>
          \A p \in Accounts, g \in GroupIds, v \in KeyVersions :
              SendGroupMessage(p, g, v) =>
                IF is_none(groups[g])
                THEN /\ last'.result = UnknownGroupMsg
                     /\ message_count' = message_count
                     /\ log' = log
                ELSE /\ last'.result = Ok
                     /\ message_count' = message_count + 1
                     /\ Len(log') = Len(log) + 1
                     /\ SubSeq(log', 1, Len(log)) = log
                     /\ log'[Len(log')].event = "group_message"
                     /\ log'[Len(log')].data.id = message_count + 1
                     /\ log'[Len(log')].data.group_id = g
                     /\ log'[Len(log')].data.from = p ]_vars

\* Two accounts have each sent a message to a group, the second with id 2.
C16_Witness ==
    /\ Succeeded("send_group_message")
    /\ message_count = 2
    /\ Len(log) = 3
    /\ log[2].event = "group_message" /\ log[3].event = "group_message"
    /\ log[2].data.from # log[3].data.from
    /\ log[3].data.id = 2

\* C17: a successful register_key replaces the caller's Profile wholesale:
\* afterwards get_profile(caller) holds exactly the key, the display_name
\* and the timestamp of this call and the new key_version; nothing of the
\* previous Profile but its version count is carried over, so a rotation
\* with no display_name clears the one set before.
C17_ProfileReplaced ==
    [][ (last'.method = "register_key" /\ last'.result = Ok) =>
          \A a \in Accounts, d \in Attached, k \in PubKeys,
             n \in DisplayNames :
              RegisterKey(a, d, k, n) =>
                get_profile(a)' =
                    Some([x25519_pubkey |-> k,
                          key_version |-> IF is_none(get_profile(a)) THEN 1
                                          ELSE key_version_of(a) + 1,
                          registered_at |-> now,
                          display_name |-> n]) ]_vars

\* An account that registered the first key under a display name in an
\* earlier block now holds the second key at version 2 and no display name.
C17_Witness ==
    /\ Succeeded("register_key")
    /\ \E a \in Registered :
          /\ get_profile(a) =
                Some([x25519_pubkey |-> PubKey2, key_version |-> 2,
                      registered_at |-> 1, display_name |-> None])
          /\ \E i \in DOMAIN log :
                /\ log[i].event = "key_registered"
                /\ log[i].data.account_id = a
                /\ log[i].data.x25519_pubkey = PubKey1
                /\ log[i].data.display_name = Some("Alice")

\* C18: create_group with less than the storage minimum attached (0.01
\* NEAR, the minimum of a first registration) fails with
\* InsufficientDeposit and stores no group; with at least the minimum
\* attached and a group_id not yet in the directory it succeeds and stores a
\* GroupChat with the caller as creator and the given name, whether or not
\* the caller has a Profile.
C18_CreateGroupDeposit ==
    [][ last'.method = "create_group" =>
          \A p \in Accounts, d \in Attached, g \in GroupIds,
             n \in GroupNames :
              CreateGroup(p, d, g, n) =>
                IF ~token_ge(d, from_millinear(ProfileDepositMilliNear))
                THEN /\ last'.result = GroupDepositMsg
                     /\ groups' = groups
                ELSE is_none(groups[g]) =>
                       /\ last'.result = Ok
                       /\ groups'[g] = Some([group_id |-> g, creator |-> p,
                                             created_at |-> now, name |-> n])
                       /\ \A h \in GroupIds \ { g } :
                             groups'[h] = groups[h] ]_vars

\* One account has a Profile; it and the account without one have each
\* created a group, one of the groups under a name.
C18_Witness ==
    /\ Succeeded("create_group")
    /\ last.attached_deposit = MinDeposit
    /\ Cardinality(Registered) = 1
    /\ \A g \in GroupIds : is_some(groups[g])
    /\ { unwrap(groups[g]).creator : g \in GroupIds } = Accounts
    /\ { unwrap(groups[g]).name : g \in GroupIds } = GroupNames

\* The key_version an account stands at, 0 while it has no Profile.
version_of(a) == IF is_none(profiles[a]) THEN 0 ELSE key_version_of(a)

\* C19: the Profile of an account changes only in a successful register_key
\* called by that account; every other step (register_key by another
\* account, a send, create_group, a failed call, a host step) leaves it as
\* it was; and in no step does its key_version decrease or move by more
\* than 1.
C19_ProfileFrame ==
    [][ \A a \in Accounts :
          /\ profiles'[a] # profiles[a] =>
                /\ last'.method = "register_key"
                /\ last'.result = Ok
                /\ \E d \in Attached, k \in PubKeys, n \in DisplayNames :
                      RegisterKey(a, d, k, n)
          /\ version_of(a)' - version_of(a) \in { 0, 1 } ]_vars

\* Both accounts are registered, one has rotated and the other has not, and
\* the last call, not a register_key, left both Profiles alone.
C19_Witness ==
    /\ last.method = "new"
    /\ { version_of(a) : a \in Accounts } = { 1, 2 }

\* C20: whether send_message succeeds depends only on the recipient having
\* a Profile: it succeeds for a caller that has no Profile of its own and
\* for any recipient_key_version, older or newer than the recipient's
\* current key_version included, and the notification carries the version
\* that was given.
C20_SendChecksRecipientOnly ==
    [][ last'.method = "send_message" =>
          \A p \in Accounts, to \in Accounts, v \in KeyVersions,
             r \in ReplyTos :
              SendMessage(p, to, v, r) =>
                /\ (last'.result = Ok) <=> has_profile(to)
                /\ has_profile(to) =>
                      /\ Len(log') = Len(log) + 1
                      /\ log'[Len(log')].event = "message"
                      /\ log'[Len(log')].data.from = p
                      /\ log'[Len(log')].data.to = to
                      /\ log'[Len(log')].data.recipient_key_version = v ]_vars

\* An account with no Profile has sent a message that names version 1 to an
\* account whose key is at version 2.
C20_Witness ==
    /\ Succeeded("send_message")
    /\ Registered = { Bob }
    /\ key_version_of(Bob) = 2
    /\ log[Len(log)].event = "message"
    /\ log[Len(log)].data.from = Alice
    /\ log[Len(log)].data.to = Bob
    /\ log[Len(log)].data.recipient_key_version = 1

====
